---- MODULE Spec2Model ----
(***************************************************************************)
(* The command gate (src/src/control/control_gate.py) and the state        *)
(* controller (src/apps/control/fsm_runner.py) of the tracking platform.   *)
(*                                                                         *)
(* Time.  time.monotonic() is the variable now, counted in clock ticks of  *)
(* 1/TicksPerSec second.  Configuration values keep the unit of the        *)
(* source (seconds, Hz) and are compared with the clock exactly:           *)
(* "elapsed < 1/hz" is "elapsed_ticks * hz < TicksPerSec".  The process    *)
(* starts at uptime StartTime > 0, larger than every configured timeout,   *)
(* while the never-set timestamps hold the source's 0.0.  All clock reads  *)
(* of one FSM.step call return the same value.                             *)
(*                                                                         *)
(* Confidence is counted in tenths (0.6 is 6).  Log records carry no time  *)
(* stamp; the calls the sink receives carry the clock reading.  The events *)
(* log has the one event type MODE_CHANGED, so _last_event is one number.  *)
(*                                                                         *)
(* The fusion engine (src/src/fusion/simple_fusion.py), the batch fusion   *)
(* pass (src/apps/fusion/fuse_replay.py) and the telemetry monitor of the  *)
(* controller follow, each with a specification of its own.  Fusion counts *)
(* bearings in thousandths of a degree and weights in ten-thousandths, so  *)
(* that the rounding of the fused record is computed, not assumed.         *)
(***************************************************************************)
EXTENDS Integers, Sequences, FiniteSets, TLC

\* ------------------------------------------------------------- bounds ----
TicksPerSec == 2
UptimeSec == 2
Horizon == 3
MaxCmds == 2
\* the batch fusion pass: the number of input records, and the latest record
\* time counted in half staleness windows
MaxRecords == 3
MaxHalfGaps == 3
\* the number of lines of the telemetry log
MaxLines == 2
\* the number of records a producer appends to its source log
MaxWrites == 3

StartTime == UptimeSec * TicksPerSec
MaxTime == StartTime + Horizon

\* ---------------------------------------------------------- constants ----
\* Python's None for an optional number
None == -1
\* fsm.lock_conf and fsm.audio_trigger_conf defaults, in tenths
LockConf == 6
AudioTriggerConf == 3
\* fsm.yaw_rate_deg_s default
YawRate == 30
\* the bearing carried by the observations of the model
Bearing == 45

\* FSM state constants
IDLE == "IDLE"
SEARCH == "SEARCH"
SCAN == "SCAN"
LOCKED == "LOCKED"
TRACK == "TRACK"
LOST == "LOST"
DEGRADED == "DEGRADED"
RETURN == "RETURN"
States == {IDLE, SEARCH, SCAN, LOCKED, TRACK, LOST, DEGRADED, RETURN}

\* GateConfig.allow_types default
DefaultAllowTypes == {"SET_YAW", "SET_MODE", "STOP"}
CmdTypes == {"SET_YAW", "SET_MODE", "STOP", "INVALID_CMD"}
LinkStatuses == {"OK", "DEGRADED", "LOST"}
\* the link statuses the telemetry log feeds the controller's gate
FsmLinkStatuses == {"OK", "DEGRADED"}

VARIABLES
    now,            \* time.monotonic(), in ticks
    cfg,            \* the configuration (GateConfig and the fsm section)
    control,        \* TRUE when a MavlinkControl is attached (not --dry-run)
    \* CommandGate
    last_send, last_cmd, link_status,
    \* SensorHealth
    last_vision, last_audio,
    \* FSM
    state, prev_state, last_seen, degraded_since, active_source,
    \* the commands log (commands.jsonl) and the calls the sink received
    commands, sink,
    events, last_event,
    \* the sink's send_* calls raise; an exception has left step() and main()
    sink_fails, raised,
    \* fuse3(vision, thermal, audio): the arguments of a call, what it returned
    args, ret,
    \* fuse_replay.main(): the sorted input records, the position of the loop,
    \* the dict latest, the lines written to fused.jsonl
    records, pos, latest, fused_log,
    \* TelemetryMonitor: the telemetry log and _last_status
    telemetry, last_status,
    \* _run_fused_live: a source log, and positions[src] and latest[src] of it
    src_log, position, live_latest,
    \* command_bridge.main(): the lines of the commands log it has read, the
    \* calls its sink received, last_send_time of its own gate
    bridge_pos, bridge_sent, bridge_last_send

\* the variables of the gate and the controller
ctl_vars == <<now, cfg, control, last_send, last_cmd, link_status, last_vision,
              last_audio, state, prev_state, last_seen, degraded_since,
              active_source, commands, sink, events, last_event, sink_fails, raised>>
\* the variables of the fusion engine, the batch pass and the telemetry monitor
fusion_vars == <<args, ret, records, pos, latest, fused_log>>
monitor_vars == <<telemetry, last_status>>
\* the variables of the two log tailers, the live fusion and the bridge
tail_vars == <<src_log, position, live_latest, bridge_pos, bridge_sent,
               bridge_last_send>>

vars == <<ctl_vars, fusion_vars, monitor_vars, tail_vars>>

\* ------------------------------------------------------ configuration ----
\* GateConfig(max_rate_hz, command_ttl_sec) and the fsm section of the
\* configuration file.  Timeouts are in seconds, the rate in Hz.
AllConfigs ==
    [max_rate_hz : {-1, 0, 1, 2},
     command_ttl_sec : {0, 1},
     allow_types : {DefaultAllowTypes, {"SET_YAW"}},
     lost_timeout_sec : {1},
     event_cooldown_sec : {0, 1},
     max_degraded_sec : {1},
     vision_fail_action : {"audio_only", "return"},
     audio_fail_action : {"vision_only", "return"},
     both_fail_action : {"return", "audio_only"},
     auto_recover : BOOLEAN]

\* The defaults of the source (lines 130-134) with the gate main() builds
\* (lines 371-374), here at 1 Hz with a TTL of 1 s.
DefaultConfig ==
    [max_rate_hz |-> 1,
     command_ttl_sec |-> 1,
     allow_types |-> DefaultAllowTypes,
     lost_timeout_sec |-> 1,
     event_cooldown_sec |-> 1,
     max_degraded_sec |-> 1,
     vision_fail_action |-> "audio_only",
     audio_fail_action |-> "vision_only",
     both_fail_action |-> "return",
     auto_recover |-> TRUE]

\* the degradation policy of the defaults
DefaultPolicy(c) ==
    /\ c.vision_fail_action = DefaultConfig.vision_fail_action
    /\ c.audio_fail_action = DefaultConfig.audio_fail_action
    /\ c.both_fail_action = DefaultConfig.both_fail_action
    /\ c.auto_recover = DefaultConfig.auto_recover

\* The controller runs with the defaults and with every configuration that
\* changes one setting of them, the event cooldown apart.
FsmConfigs ==
    {c \in AllConfigs :
        /\ c.allow_types = DefaultAllowTypes
        /\ c.max_rate_hz \in {0, 1}
        /\ c.event_cooldown_sec = DefaultConfig.event_cooldown_sec
        /\ Cardinality({f \in DOMAIN c : c[f] # DefaultConfig[f]}) <= 1}

\* The defaults with and without the event cooldown (the tests set it to 0).
AuditConfigs ==
    {c \in AllConfigs :
        \A f \in DOMAIN c \ {"event_cooldown_sec"} : c[f] = DefaultConfig[f]}

\* The gate on its own runs with every GateConfig.
GateConfigs == {c \in AllConfigs : DefaultPolicy(c)}

\* ------------------------------------------------------- CommandGate ----
\* The fields the operations below read and write, as one record.
World ==
    [last_send |-> last_send, last_cmd |-> last_cmd, link_status |-> link_status,
     last_vision |-> last_vision, last_audio |-> last_audio,
     state |-> state, prev_state |-> prev_state, last_seen |-> last_seen,
     degraded_since |-> degraded_since, active_source |-> active_source,
     commands |-> commands, sink |-> sink,
     events |-> events, last_event |-> last_event, raised |-> raised,
     control |-> control]

\* faulty variant: the interval test is off by one tick boundary (<= for <)
RateLimited_le(w) ==
    IF cfg.max_rate_hz > 0
    THEN (now - w.last_send) * cfg.max_rate_hz <= TicksPerSec
    ELSE now - w.last_send <= 0

\* now - last_send < min_interval, min_interval = 1/max_rate_hz if > 0 else 0
RateLimited(w) ==
    IF cfg.max_rate_hz > 0
    THEN (now - w.last_send) * cfg.max_rate_hz < TicksPerSec
    ELSE now - w.last_send < 0

\* faulty variant: only a LOST link vetoes, a DEGRADED one does not
can_send_lost_only(w, cmd_type) ==
    IF cmd_type \notin cfg.allow_types THEN FALSE
    ELSE IF w.link_status = "LOST" THEN FALSE
    ELSE IF (IF cfg.max_rate_hz > 0
             THEN (now - w.last_send) * cfg.max_rate_hz < TicksPerSec
             ELSE now - w.last_send < 0) THEN FALSE
    ELSE TRUE

\* faulty variant: the allow-list is not consulted
can_send_noallow(w, cmd_type) ==
    IF w.link_status # "OK" THEN FALSE
    ELSE IF RateLimited(w) THEN FALSE
    ELSE TRUE

can_send(w, cmd_type) ==
    IF cmd_type \notin cfg.allow_types THEN FALSE
    ELSE IF w.link_status # "OK" THEN FALSE
    ELSE IF RateLimited(w) THEN FALSE
    ELSE TRUE

mark_sent(w) == [w EXCEPT !.last_send = now, !.last_cmd = now]

\* faulty variant: a command sent exactly command_ttl_sec ago is expired
expired_ge(w) ==
    IF cfg.command_ttl_sec <= 0 THEN FALSE
    ELSE (now - w.last_cmd) >= cfg.command_ttl_sec * TicksPerSec

expired(w) ==
    IF cfg.command_ttl_sec <= 0 THEN FALSE
    ELSE (now - w.last_cmd) > cfg.command_ttl_sec * TicksPerSec

update_link_status(w, status) == [w EXCEPT !.link_status = status]

\* faulty variant: a call of can_send that allows the command marks it sent
after_can_send_marks(w, cmd_type) ==
    IF can_send(w, cmd_type) THEN mark_sent(w) ELSE w

\* The gate after a call of can_send and after a call of expired: the two
\* methods assign nothing.
after_can_send(w, cmd_type) == w
after_expired(w) == w

\* ------------------------------------------------------ SensorHealth ----
update_vision(w) == [w EXCEPT !.last_vision = now]
update_audio(w) == [w EXCEPT !.last_audio = now]

\* faulty variant: a sensor last updated exactly timeout_sec ago still counts
vision_ok_le(w) == (now - w.last_vision) <= cfg.lost_timeout_sec * TicksPerSec

\* SensorHealth is built with timeout_sec = lost_timeout
vision_ok(w) == (now - w.last_vision) < cfg.lost_timeout_sec * TicksPerSec
audio_ok(w) == (now - w.last_audio) < cfg.lost_timeout_sec * TicksPerSec

status(w) ==
    LET v == vision_ok(w)
        a == audio_ok(w)
    IN  IF v /\ a THEN "ALL_OK"
        ELSE IF v /\ ~a THEN "AUDIO_FAIL"
        ELSE IF ~v /\ a THEN "VISION_FAIL"
        ELSE "BOTH_FAIL"

\* ------------------------------------------------------- observations ----
\* step(None)
NoObs ==
    [present |-> FALSE, status |-> "NONE", source |-> "none", sources |-> {},
     bearing_deg |-> None, confidence |-> 0]

\* An observation record: extras.sources is the field sources, an absent
\* bearing_deg is None, an absent confidence reads as 0.0 (line 264).
Obs(st, source, sources, bearing_deg, confidence) ==
    [present |-> TRUE, status |-> st, source |-> source, sources |-> sources,
     bearing_deg |-> bearing_deg, confidence |-> confidence]

\* The observations fed to step(): fused records of both sensors, of one
\* sensor, without a bearing, single-sensor records, and records whose
\* status is not OK (a fused record built from one candidate is DEGRADED).
Observations ==
    {NoObs}
    \cup {Obs("OK", "fusion", {"vision", "audio"}, Bearing, c) : c \in {AudioTriggerConf, LockConf}}
    \cup {Obs("OK", "fusion", {"audio"}, Bearing, c) : c \in {0, AudioTriggerConf}}
    \cup {Obs("OK", "fusion", {"vision"}, Bearing, LockConf),
          Obs("OK", "fusion", {"vision", "audio"}, None, 0),
          Obs("OK", "vision", {"vision"}, Bearing, LockConf),
          Obs("OK", "audio", {"audio"}, Bearing, LockConf),
          Obs("OK", "audio", {}, None, 0),
          Obs("DEGRADED", "fusion", {"audio"}, Bearing, LockConf),
          Obs("DEGRADED", "vision", {"vision"}, Bearing, LockConf)}

\* --------------------------------------------------------------- FSM ----
\* faulty variant: the record does not carry the gate's answer
_log_command_flag(w, cmd_type, params, allowed, note) ==
    [w EXCEPT !.commands = Append(@,
        [type |-> cmd_type, params |-> params, allowed |-> TRUE, note |-> note])]

_log_command(w, cmd_type, params, allowed, note) ==
    [w EXCEPT !.commands = Append(@,
        [type |-> cmd_type, params |-> params, allowed |-> allowed, note |-> note])]

\* MavlinkControl.send_yaw / set_mode / send_stop as seen by the caller: the
\* call reaches the vehicle at the current clock reading, or it raises.
Dispatch(w, cmd_type) ==
    IF sink_fails THEN [w EXCEPT !.raised = TRUE]
    ELSE [w EXCEPT !.sink = Append(@, [type |-> cmd_type, t |-> now])]

\* faulty variant: the yaw command is dispatched whatever the gate says
_send_yaw_ungated(w, bearing) ==
    LET allowed == can_send(w, "SET_YAW")
        w1 == _log_command(w, "SET_YAW", <<"yaw", bearing, YawRate>>, allowed, "fsm")
    IN  mark_sent(IF w.control THEN Dispatch(w1, "SET_YAW") ELSE w1)

_send_yaw(w, bearing) ==
    LET allowed == can_send(w, "SET_YAW")
        w1 == _log_command(w, "SET_YAW", <<"yaw", bearing, YawRate>>, allowed, "fsm")
    IN  IF ~allowed THEN w1
        ELSE LET w2 == IF w.control THEN Dispatch(w1, "SET_YAW") ELSE w1
             IN  IF w2.raised THEN w2 ELSE mark_sent(w2)

\* faulty variant: the return command bypasses the gate
_send_return_ungated(w) ==
    LET allowed == can_send(w, "SET_MODE")
        w1 == _log_command(w, "SET_MODE", <<"mode", "RTL">>, allowed, "fsm-return")
    IN  mark_sent(IF w.control THEN Dispatch(w1, "SET_MODE") ELSE w1)

_send_return(w) ==
    LET allowed == can_send(w, "SET_MODE")
        w1 == _log_command(w, "SET_MODE", <<"mode", "RTL">>, allowed, "fsm-return")
    IN  IF ~allowed THEN w1
        ELSE LET w2 == IF w.control THEN Dispatch(w1, "SET_MODE") ELSE w1
             IN  IF w2.raised THEN w2 ELSE mark_sent(w2)

\* faulty variant: the cooldown test admits equality and applies at cooldown 0
_emit_event_le(w, event_type, note) ==
    IF (now - w.last_event) <= cfg.event_cooldown_sec * TicksPerSec
    THEN w
    ELSE [w EXCEPT !.events = Append(@, [type |-> event_type, note |-> note]),
                   !.last_event = now]

_emit_event(w, event_type, note) ==
    IF cfg.event_cooldown_sec > 0
       /\ (now - w.last_event) < cfg.event_cooldown_sec * TicksPerSec
    THEN w
    ELSE [w EXCEPT !.events = Append(@, [type |-> event_type, note |-> note]),
                   !.last_event = now]

_transition(w, new_state, reason) ==
    IF new_state # w.state
    THEN _emit_event([w EXCEPT !.prev_state = w.state, !.state = new_state],
                     "MODE_CHANGED", <<w.state, new_state, reason>>)
    ELSE w

\* faulty variant: the actions of the two single failures are swapped
_check_degradation_swapped(w) ==
    LET st == status(w)
    IN  IF st = "ALL_OK" THEN "none"
        ELSE IF st = "VISION_FAIL" THEN cfg.audio_fail_action
        ELSE IF st = "AUDIO_FAIL" THEN cfg.vision_fail_action
        ELSE IF st = "BOTH_FAIL" THEN cfg.both_fail_action
        ELSE "none"

\* faulty variant: the failure of both sensors asks for no action
_check_degradation_noboth(w) ==
    LET st == status(w)
    IN  IF st = "ALL_OK" THEN "none"
        ELSE IF st = "VISION_FAIL" THEN cfg.vision_fail_action
        ELSE IF st = "AUDIO_FAIL" THEN cfg.audio_fail_action
        ELSE "none"

_check_degradation(w) ==
    LET st == status(w)
    IN  IF st = "ALL_OK" THEN "none"
        ELSE IF st = "VISION_FAIL" THEN cfg.vision_fail_action
        ELSE IF st = "AUDIO_FAIL" THEN cfg.audio_fail_action
        ELSE IF st = "BOTH_FAIL" THEN cfg.both_fail_action
        ELSE "none"

\* step(), lines 220-231: refresh the health timestamps
\* faulty variant: a fused record refreshes only the sensors it names
UpdateHealth_named(w, obs) ==
    IF obs.present /\ obs.status = "OK"
    THEN LET w1 == IF obs.source = "vision" \/ "vision" \in obs.sources
                   THEN update_vision(w) ELSE w
         IN  IF obs.source = "audio" \/ "audio" \in obs.sources
             THEN update_audio(w1) ELSE w1
    ELSE w

UpdateHealth(w, obs) ==
    IF obs.present /\ obs.status = "OK"
    THEN LET w1 == IF obs.source = "vision" \/ "vision" \in obs.sources
                   THEN update_vision(w) ELSE w
             w2 == IF obs.source = "audio" \/ "audio" \in obs.sources
                   THEN update_audio(w1) ELSE w1
         IN  IF obs.source = "fusion" \/ obs.source = "fused"
             THEN update_audio(update_vision(w2)) ELSE w2
    ELSE w

\* the reason f"sensor_fail:{degrade_action}" of line 242
SensorFailReason(action) ==
    CASE action = "audio_only" -> "sensor_fail:audio_only"
      [] action = "vision_only" -> "sensor_fail:vision_only"
      [] OTHER -> "sensor_fail:other"

\* faulty variant: the check does not exempt RETURN, so the return is sent again
DegradeCheck_resend(w) ==
    LET degrade_action == _check_degradation(w)
    IN  IF degrade_action = "none" THEN [done |-> FALSE, w |-> w]
        ELSE IF w.state # DEGRADED /\ degrade_action = "return"
        THEN [done |-> TRUE,
              w |-> _send_return(_transition(w, RETURN, "both_sensors_fail"))]
        ELSE LET w1 == IF w.state # DEGRADED /\ w.state # RETURN
                       THEN [_transition(w, DEGRADED, SensorFailReason(degrade_action)) EXCEPT
                                !.degraded_since = now,
                                !.active_source = degrade_action]
                       ELSE w
             IN  IF w1.state = DEGRADED
                    /\ w1.degraded_since # None /\ w1.degraded_since # 0
                    /\ (now - w1.degraded_since) > cfg.max_degraded_sec * TicksPerSec
                 THEN [done |-> TRUE,
                       w |-> _send_return(_transition(w1, RETURN, "degraded_timeout"))]
                 ELSE [done |-> FALSE, w |-> w1]

\* step(), lines 233-251: the degradation check.  done = TRUE is the early
\* return of lines 240 and 251.
\* faulty variant: every failing step sets the fallback source and the timer
\* anew, also when the state is DEGRADED already
DegradeCheck_rearm(w) ==
    LET degrade_action == _check_degradation(w)
    IN  IF degrade_action = "none" THEN [done |-> FALSE, w |-> w]
        ELSE IF w.state # DEGRADED /\ w.state # RETURN /\ degrade_action = "return"
        THEN [done |-> TRUE,
              w |-> _send_return(_transition(w, RETURN, "both_sensors_fail"))]
        ELSE LET w1 == IF w.state # RETURN /\ degrade_action # "return"
                       THEN [_transition(w, DEGRADED, SensorFailReason(degrade_action)) EXCEPT
                                !.degraded_since = now,
                                !.active_source = degrade_action]
                       ELSE w
             IN  IF w1.state = DEGRADED
                    /\ w1.degraded_since # None /\ w1.degraded_since # 0
                    /\ (now - w1.degraded_since) > cfg.max_degraded_sec * TicksPerSec
                 THEN [done |-> TRUE,
                       w |-> _send_return(_transition(w1, RETURN, "degraded_timeout"))]
                 ELSE [done |-> FALSE, w |-> w1]

DegradeCheck(w) ==
    LET degrade_action == _check_degradation(w)
    IN  IF degrade_action = "none" THEN [done |-> FALSE, w |-> w]
        ELSE IF w.state # DEGRADED /\ w.state # RETURN /\ degrade_action = "return"
        THEN [done |-> TRUE,
              w |-> _send_return(_transition(w, RETURN, "both_sensors_fail"))]
        ELSE LET w1 == IF w.state # DEGRADED /\ w.state # RETURN
                       THEN [_transition(w, DEGRADED, SensorFailReason(degrade_action)) EXCEPT
                                !.degraded_since = now,
                                !.active_source = degrade_action]
                       ELSE w
             IN  IF w1.state = DEGRADED
                    /\ w1.degraded_since # None /\ w1.degraded_since # 0
                    /\ (now - w1.degraded_since) > cfg.max_degraded_sec * TicksPerSec
                 THEN [done |-> TRUE,
                       w |-> _send_return(_transition(w1, RETURN, "degraded_timeout"))]
                 ELSE [done |-> FALSE, w |-> w1]

\* faulty variant: recovery also leaves RETURN
AutoRecover_fromReturn(w) ==
    IF w.state \in {DEGRADED, RETURN} /\ cfg.auto_recover /\ status(w) = "ALL_OK"
    THEN [_transition(w, SEARCH, "sensors_recovered") EXCEPT
            !.active_source = "fused", !.degraded_since = None]
    ELSE w

\* faulty variant: recovery leaves the fallback source and the timer as they are
AutoRecover_keep(w) ==
    IF w.state = DEGRADED /\ cfg.auto_recover /\ status(w) = "ALL_OK"
    THEN _transition(w, SEARCH, "sensors_recovered")
    ELSE w

\* faulty variant: recovery does not consult the auto_recover setting
AutoRecover_unconditional(w) ==
    IF w.state = DEGRADED /\ status(w) = "ALL_OK"
    THEN [_transition(w, SEARCH, "sensors_recovered") EXCEPT
            !.active_source = "fused", !.degraded_since = None]
    ELSE w

\* step(), lines 253-258: automatic recovery
AutoRecover(w) ==
    IF w.state = DEGRADED /\ cfg.auto_recover /\ status(w) = "ALL_OK"
    THEN [_transition(w, SEARCH, "sensors_recovered") EXCEPT
            !.active_source = "fused", !.degraded_since = None]
    ELSE w

\* faulty variant: under "fused", audio alone drives the heading at any confidence
ShouldYaw_nothreshold(w, sources, conf) ==
    IF w.active_source = "audio_only"
    THEN "audio" \in sources /\ conf >= AudioTriggerConf
    ELSE IF w.active_source = "vision_only"
    THEN "vision" \in sources
    ELSE "audio" \in sources \/ "vision" \in sources

\* step(), lines 281-291
ShouldYaw(w, sources, conf) ==
    IF w.active_source = "audio_only"
    THEN "audio" \in sources /\ conf >= AudioTriggerConf
    ELSE IF w.active_source = "vision_only"
    THEN "vision" \in sources
    ELSE IF "audio" \in sources /\ "vision" \notin sources
    THEN conf >= AudioTriggerConf
    ELSE IF "vision" \in sources THEN TRUE
    ELSE FALSE

\* faulty variant: one advance per step (elif), so IDLE stops at SEARCH
ValidObs_elif(w, obs) ==
    LET sources == obs.sources
        conf == obs.confidence
        w0 == [w EXCEPT !.last_seen = now]
    IN  IF w0.state = IDLE THEN _transition(w0, SEARCH, "observation_received")
        ELSE IF w0.state = SEARCH THEN _transition(w0, SCAN, "target_detected")
        ELSE IF w0.state \in {SCAN, LOCKED, TRACK, DEGRADED}
        THEN LET w3 == IF ShouldYaw(w0, sources, conf)
                       THEN _send_yaw(w0, obs.bearing_deg) ELSE w0
                 w4 == IF w3.state = SCAN /\ "vision" \in sources /\ conf >= LockConf
                       THEN _transition(w3, LOCKED, "vision_confirmed") ELSE w3
             IN  IF w4.state = LOCKED /\ conf >= LockConf
                 THEN _transition(w4, TRACK, "continuous_tracking") ELSE w4
        ELSE w0

\* faulty variant: SCAN is promoted to LOCKED on confidence alone
ValidObs_novision(w, obs) ==
    LET sources == obs.sources
        conf == obs.confidence
        w0 == [w EXCEPT !.last_seen = now]
        w1 == IF w0.state = IDLE
              THEN _transition(w0, SEARCH, "observation_received") ELSE w0
        w2 == IF w1.state = SEARCH
              THEN _transition(w1, SCAN, "target_detected") ELSE w1
    IN  IF w2.state \in {SCAN, LOCKED, TRACK, DEGRADED}
        THEN LET w3 == IF ShouldYaw(w2, sources, conf)
                       THEN _send_yaw(w2, obs.bearing_deg) ELSE w2
                 w4 == IF w3.state = SCAN /\ conf >= LockConf
                       THEN _transition(w3, LOCKED, "vision_confirmed") ELSE w3
             IN  IF w3.raised THEN w3
                 ELSE IF w4.state = LOCKED /\ conf >= LockConf
                 THEN _transition(w4, TRACK, "continuous_tracking") ELSE w4
        ELSE w2

\* faulty variant: the two promotions exclude each other (elif)
ValidObs_onePromotion(w, obs) ==
    LET sources == obs.sources
        conf == obs.confidence
        w0 == [w EXCEPT !.last_seen = now]
        w1 == IF w0.state = IDLE
              THEN _transition(w0, SEARCH, "observation_received") ELSE w0
        w2 == IF w1.state = SEARCH
              THEN _transition(w1, SCAN, "target_detected") ELSE w1
    IN  IF w2.state \in {SCAN, LOCKED, TRACK, DEGRADED}
        THEN LET w3 == IF ShouldYaw(w2, sources, conf)
                       THEN _send_yaw(w2, obs.bearing_deg) ELSE w2
             IN  IF w3.raised THEN w3
                 ELSE IF w3.state = SCAN /\ "vision" \in sources /\ conf >= LockConf
                 THEN _transition(w3, LOCKED, "vision_confirmed")
                 ELSE IF w3.state = LOCKED /\ conf >= LockConf
                 THEN _transition(w3, TRACK, "continuous_tracking") ELSE w3
        ELSE w2

\* step(), lines 261-302: a valid observation
ValidObs(w, obs) ==
    LET sources == obs.sources
        conf == obs.confidence
        w0 == [w EXCEPT !.last_seen = now]
        w1 == IF w0.state = IDLE
              THEN _transition(w0, SEARCH, "observation_received") ELSE w0
        w2 == IF w1.state = SEARCH
              THEN _transition(w1, SCAN, "target_detected") ELSE w1
    IN  IF w2.state \in {SCAN, LOCKED, TRACK, DEGRADED}
        THEN LET w3 == IF ShouldYaw(w2, sources, conf)
                       THEN _send_yaw(w2, obs.bearing_deg) ELSE w2
                 w4 == IF w3.state = SCAN /\ "vision" \in sources /\ conf >= LockConf
                       THEN _transition(w3, LOCKED, "vision_confirmed") ELSE w3
             IN  IF w3.raised THEN w3
                 ELSE IF w4.state = LOCKED /\ conf >= LockConf
                 THEN _transition(w4, TRACK, "continuous_tracking") ELSE w4
        ELSE w2

\* step(), lines 311-318: LOST handling
\* faulty variant: the resume waits for the TTL of the gate to expire
LostHandling_held(w) ==
    IF w.state = LOST /\ expired(w)
    THEN LET allowed == can_send(w, "STOP")
             wl == _log_command(w, "STOP", <<>>, allowed, "fsm-lost")
             ws == Dispatch(wl, "STOP")
             w1 == IF allowed /\ w.control
                   THEN (IF ws.raised THEN ws ELSE mark_sent(ws)) ELSE wl
         IN  IF w1.raised THEN w1 ELSE _transition(w1, SEARCH, "resume_search")
    ELSE w

LostHandling(w) ==
    IF w.state = LOST
    THEN LET w1 == IF expired(w)
                   THEN LET allowed == can_send(w, "STOP")
                            wl == _log_command(w, "STOP", <<>>, allowed, "fsm-lost")
                            ws == Dispatch(wl, "STOP")
                        IN  IF allowed /\ w.control
                            THEN (IF ws.raised THEN ws ELSE mark_sent(ws)) ELSE wl
                   ELSE w
         IN  IF w1.raised THEN w1 ELSE _transition(w1, SEARCH, "resume_search")
    ELSE w

\* step(), lines 304-318: no valid observation
NoValidObs(w) ==
    LET w1 == IF w.state \in {SCAN, LOCKED, TRACK}
                 /\ (now - w.last_seen) > cfg.lost_timeout_sec * TicksPerSec
              THEN _transition(w, LOST, "observation_timeout") ELSE w
    IN  LostHandling(w1)

\* FSM.step
step(w, obs) ==
    LET d == DegradeCheck(UpdateHealth(w, obs))
    IN  IF d.done THEN d.w
        ELSE LET w1 == AutoRecover(d.w)
             IN  IF obs.present /\ obs.status = "OK" /\ obs.bearing_deg # None
                 THEN ValidObs(w1, obs)
                 ELSE NoValidObs(w1)

\* ------------------------------------------------------------ fusion ----
\* Python's None for an Observation, and an Observation (simple_fusion.py,
\* lines 6-14); extras is its list of sources.
Absent ==
    [present |-> FALSE, time |-> None, source |-> "none", bearing_deg |-> None,
     roi |-> "none", confidence |-> None, status |-> "none", sources |-> <<>>]

\* An Observation a sensor wrote.  Bearings are counted in thousandths of a
\* degree, confidences and weights in ten-thousandths, times in
\* milliseconds of the monotonic clock; the roi is named after its sensor.
Observation(src, t, b, r, c) ==
    [present |-> TRUE, time |-> t, source |-> src, bearing_deg |-> b,
     roi |-> r, confidence |-> c, status |-> "OK", sources |-> <<>>]

\* the weights 0.5, 0.05 and 1.0 of _weight, in ten-thousandths
WeightNone == 5000
WeightMin == 500
WeightMax == 10000

Min2(a, b) == IF a < b THEN a ELSE b
Max2(a, b) == IF a > b THEN a ELSE b

\* faulty variant: an absent confidence weighs as the smallest one
_weight_nonemin(conf) ==
    IF conf = None THEN WeightMin ELSE Max2(WeightMin, Min2(WeightMax, conf))

_weight(conf) ==
    IF conf = None THEN WeightNone ELSE Max2(WeightMin, Min2(WeightMax, conf))

\* round(num / den) to the nearest multiple of unit, ties to the even
\* multiple, as Python's round(x, ndigits) does on the exact quotient
Round(num, den, unit) ==
    LET d == den * unit
        q == num \div d
        r == num % d
    IN IF 2 * r < d THEN q * unit
       ELSE IF 2 * r > d THEN (q + 1) * unit
       ELSE IF q % 2 = 0 THEN q * unit ELSE (q + 1) * unit

\* round(bearing, 2) and round(max_conf, 3) in the units above
BearingUnit == 10
ConfUnit == 10

IsCandidate(c) == c.obs.present /\ c.obs.bearing_deg # None

RECURSIVE SumOver(_, _, _)
\* sum(f(obs) for _, obs in candidates), f being 1 for the weight and 2 for
\* bearing times weight
SumOver(cands, i, f) ==
    IF i > Len(cands) THEN 0
    ELSE (IF f = 1 THEN _weight(cands[i].obs.confidence)
          ELSE cands[i].obs.bearing_deg * _weight(cands[i].obs.confidence))
         + SumOver(cands, i + 1, f)

RECURSIVE MaxWeight(_, _)
MaxWeight(cands, i) ==
    IF i = Len(cands) THEN _weight(cands[i].obs.confidence)
    ELSE Max2(_weight(cands[i].obs.confidence), MaxWeight(cands, i + 1))

\* the time of the first candidate, in the order vision, thermal, audio,
\* whose time dict is not empty; an empty dict otherwise
FusedTime(cands) ==
    LET timed == SelectSeq(cands, LAMBDA c : c.obs.time # None)
    IN IF timed = <<>> THEN None ELSE timed[1].obs.time

\* faulty variant: the roi of the first candidate that has one
FusedRoi_any(cands) ==
    LET boxed == SelectSeq(cands, LAMBDA c : c.obs.roi # "none")
    IN IF boxed = <<>> THEN "none" ELSE boxed[1].obs.roi

\* the roi of the first vision or thermal candidate that has one
FusedRoi(cands) ==
    LET boxed == SelectSeq(cands, LAMBDA c :
                     c.src \in {"vision", "thermal"} /\ c.obs.roi # "none")
    IN IF boxed = <<>> THEN "none" ELSE boxed[1].obs.roi

Candidates(vision, thermal, audio) ==
    SelectSeq(<<[src |-> "vision", obs |-> vision],
                [src |-> "thermal", obs |-> thermal],
                [src |-> "audio", obs |-> audio]>>, IsCandidate)

\* faulty variant: the weighted sum is not divided by the total weight
fuse3_unnormalised(vision, thermal, audio) ==
    LET candidates == Candidates(vision, thermal, audio)
    IN IF candidates = <<>> THEN Absent
       ELSE [present |-> TRUE,
             time |-> FusedTime(candidates),
             source |-> "fusion",
             bearing_deg |-> Round(SumOver(candidates, 1, 2), WeightMax, BearingUnit),
             roi |-> FusedRoi(candidates),
             confidence |-> Round(MaxWeight(candidates, 1), 1, ConfUnit),
             status |-> IF Len(candidates) >= 2 THEN "OK" ELSE "DEGRADED",
             sources |-> [i \in 1..Len(candidates) |-> candidates[i].src]]

fuse3(vision, thermal, audio) ==
    LET candidates == Candidates(vision, thermal, audio)
        total_w == SumOver(candidates, 1, 1)
    IN IF candidates = <<>> THEN Absent
       ELSE IF total_w <= 0 THEN Absent
       ELSE [present |-> TRUE,
             time |-> FusedTime(candidates),
             source |-> "fusion",
             bearing_deg |-> Round(SumOver(candidates, 1, 2), total_w, BearingUnit),
             roi |-> FusedRoi(candidates),
             confidence |-> Round(MaxWeight(candidates, 1), 1, ConfUnit),
             status |-> IF Len(candidates) >= 2 THEN "OK" ELSE "DEGRADED",
             sources |-> [i \in 1..Len(candidates) |-> candidates[i].src]]

fuse(vision, audio) == fuse3(vision, Absent, audio)

\* A fused record as step() reads it from the fused log: the payload keeps
\* status, bearing, confidence and extras.sources and names the source
\* "fusion".  The controller counts bearings in degrees and confidences in
\* tenths, and its thresholds are whole tenths, so dropping the finer digits
\* changes no comparison.
FusedObs(fused) ==
    [present |-> TRUE, status |-> fused.status, source |-> "fusion",
     sources |-> {fused.sources[i] : i \in 1..Len(fused.sources)},
     bearing_deg |-> fused.bearing_deg \div 1000,
     confidence |-> fused.confidence \div 1000]

\* no call of fuse3 was made, the batch pass has no input
FusionIdle ==
    /\ args = [vision |-> Absent, thermal |-> Absent, audio |-> Absent]
    /\ ret = <<>>
    /\ records = <<>>
    /\ pos = 1
    /\ latest = [vision |-> Absent, audio |-> Absent]
    /\ fused_log = <<>>

\* -------------------------------------------------- TelemetryMonitor ----
\* TelemetryMonitor.__init__; the telemetry log does not exist yet
MonitorIdle ==
    /\ telemetry = [exists |-> FALSE, lines |-> <<>>]
    /\ last_status = "OK"

\* A line of the telemetry log: a record with the link_status its producer
\* wrote, or a line json.loads rejects (a torn or a damaged line).
TelemetryLines ==
    {[parseable |-> TRUE, link_status |-> st] : st \in LinkStatuses}
    \cup {[parseable |-> FALSE, link_status |-> "none"]}

load_jsonl(file) ==
    IF ~file.exists THEN <<>>
    ELSE SelectSeq(file.lines, LAMBDA line : line.parseable)

\* faulty variant: without a record the status falls back to "OK"
update_default(file, prev) ==
    LET recs == load_jsonl(file)
    IN IF recs = <<>> THEN "OK" ELSE recs[Len(recs)].link_status

\* TelemetryMonitor.update(): the value returned, which is also the new
\* _last_status; prev is _last_status before the call
update(file, prev) ==
    LET recs == load_jsonl(file)
    IN IF recs = <<>> THEN prev ELSE recs[Len(recs)].link_status

\* ------------------------------------------------------- log tailers ----
\* _run_fused_live before its first poll (lines 161-162) of a source log
\* not yet written, and the bridge at the start of an empty commands log
\* with the gate it constructs (command_bridge.py, line 66)
TailIdle ==
    /\ src_log = <<>>
    /\ position = 0
    /\ live_latest = 0
    /\ bridge_pos = 0
    /\ bridge_sent = <<>>
    /\ bridge_last_send = 0

\* The pieces in which a record reaches the file: the whole line, or its
\* head first and its tail with the newline later (the producer's buffer
\* is flushed inside the line; yolo_infer.py writes without flushing).
Piece(k, part) == [rec |-> k, part |-> part]

\* the file is not in the middle of a line
Complete(log) == IF log = <<>> THEN TRUE ELSE log[Len(log)].part # "head"
\* the number of the record the producer writes next
NextRecord(log) == IF log = <<>> THEN 1 ELSE log[Len(log)].rec + 1

\* The records json.loads accepts among the lines of the pieces read: a
\* whole line, or a head followed in the same read by its tail.  A tail
\* whose head was read before and a head without its tail are no JSON.
RECURSIVE Parsed(_, _)
Parsed(chunk, i) ==
    IF i > Len(chunk) THEN <<>>
    ELSE IF chunk[i].part = "whole" THEN <<chunk[i].rec>> \o Parsed(chunk, i + 1)
    ELSE IF chunk[i].part = "head" /\ i < Len(chunk)
         THEN <<chunk[i].rec>> \o Parsed(chunk, i + 2)
    ELSE Parsed(chunk, i + 1)

\* one pass of the tail loop over a source (lines 174-189): read from
\* positions[src] to the end of the file, keep the last record that
\* parses, and set positions[src] to the end of the file
tail_source(log, p, lat) ==
    LET recs == Parsed(SubSeq(log, p + 1, Len(log)), 1)
    IN [position |-> Len(log),
        latest |-> IF recs = <<>> THEN lat ELSE recs[Len(recs)]]

\* ------------------------------------------------------------ actions ----
Store(w) ==
    /\ last_send' = w.last_send
    /\ last_cmd' = w.last_cmd
    /\ link_status' = w.link_status
    /\ last_vision' = w.last_vision
    /\ last_audio' = w.last_audio
    /\ state' = w.state
    /\ prev_state' = w.prev_state
    /\ last_seen' = w.last_seen
    /\ degraded_since' = w.degraded_since
    /\ active_source' = w.active_source
    /\ commands' = w.commands
    /\ sink' = w.sink
    /\ events' = w.events
    /\ last_event' = w.last_event
    /\ raised' = w.raised

\* CommandGate.__init__, SensorHealth.__init__ and FSM.__init__
Init ==
    /\ now = StartTime
    /\ cfg \in FsmConfigs
    /\ control \in BOOLEAN
    /\ control \/ cfg = DefaultConfig
    /\ last_send = 0
    /\ last_cmd = 0
    /\ link_status = "OK"
    /\ last_vision = 0
    /\ last_audio = 0
    /\ state = IDLE
    /\ prev_state = IDLE
    /\ last_seen = StartTime
    /\ degraded_since = None
    /\ active_source = "fused"
    /\ commands = <<>>
    /\ sink = <<>>
    /\ events = <<>>
    /\ last_event = 0
    /\ sink_fails = FALSE
    /\ raised = FALSE
    /\ FusionIdle
    /\ MonitorIdle
    /\ TailIdle

\* the monotonic clock advances
Tick ==
    /\ now < MaxTime
    /\ now' = now + 1
    /\ UNCHANGED <<cfg, control, last_send, last_cmd, link_status, last_vision,
                   last_audio, state, prev_state, last_seen, degraded_since,
                   active_source, commands, sink, events, last_event,
                   sink_fails, raised, fusion_vars, monitor_vars, tail_vars>>

\* main(), line 386: gate.update_link_status(monitor.update())
UpdateLinkStatus(s) ==
    /\ ~raised
    /\ Store(update_link_status(World, s))
    /\ UNCHANGED <<now, cfg, control, sink_fails, fusion_vars, monitor_vars,
                   tail_vars>>

\* main(), line 392: fsm.step(record).  The commands log is capped at MaxCmds
\* records (a step appends at most one).
Step(obs) ==
    /\ ~raised
    /\ Len(commands) < MaxCmds
    /\ Store(step(World, obs))
    /\ UNCHANGED <<now, cfg, control, sink_fails, fusion_vars, monitor_vars,
                   tail_vars>>

Next ==
    \/ Tick
    \/ \E s \in FsmLinkStatuses : UpdateLinkStatus(s)
    \/ \E obs \in Observations : Step(obs)

Spec == Init /\ [][Next]_vars

\* The controller under the degradation policy of the defaults, with every
\* gate setting the controller runs with (rate limit on and off, TTL on and
\* off).
DefaultPolicyInit == Init /\ DefaultPolicy(cfg)

DefaultPolicySpec == DefaultPolicyInit /\ [][Next]_vars

\* ------------------------------------------------ the gate on its own ----
\* CommandGate driven directly through its methods, as the gate's tests do;
\* the controller is constructed and never stepped.
GateInit ==
    /\ now = StartTime
    /\ cfg \in GateConfigs
    /\ control = FALSE
    /\ last_send = 0
    /\ last_cmd = 0
    /\ link_status = "OK"
    /\ last_vision = 0
    /\ last_audio = 0
    /\ state = IDLE
    /\ prev_state = IDLE
    /\ last_seen = StartTime
    /\ degraded_since = None
    /\ active_source = "fused"
    /\ commands = <<>>
    /\ sink = <<>>
    /\ events = <<>>
    /\ last_event = 0
    /\ sink_fails = FALSE
    /\ raised = FALSE
    /\ FusionIdle
    /\ MonitorIdle
    /\ TailIdle

\* gate.mark_sent()
MarkSent ==
    /\ Store(mark_sent(World))
    /\ UNCHANGED <<now, cfg, control, sink_fails, fusion_vars, monitor_vars,
                   tail_vars>>

\* gate.can_send(cmd_type)
CanSend(cmd_type) ==
    /\ Store(after_can_send(World, cmd_type))
    /\ UNCHANGED <<now, cfg, control, sink_fails, fusion_vars, monitor_vars,
                   tail_vars>>

\* gate.expired()
Expired ==
    /\ Store(after_expired(World))
    /\ UNCHANGED <<now, cfg, control, sink_fails, fusion_vars, monitor_vars,
                   tail_vars>>

GateNext ==
    \/ Tick
    \/ \E s \in FsmLinkStatuses : UpdateLinkStatus(s)
    \/ MarkSent
    \/ \E t \in CmdTypes : CanSend(t)
    \/ Expired

GateSpec == GateInit /\ [][GateNext]_vars

\* the gate and the controller as constructed, taking no step
ControlIdle ==
    /\ now = StartTime
    /\ cfg = DefaultConfig
    /\ control = FALSE
    /\ last_send = 0
    /\ last_cmd = 0
    /\ link_status = "OK"
    /\ last_vision = 0
    /\ last_audio = 0
    /\ state = IDLE
    /\ prev_state = IDLE
    /\ last_seen = StartTime
    /\ degraded_since = None
    /\ active_source = "fused"
    /\ commands = <<>>
    /\ sink = <<>>
    /\ events = <<>>
    /\ last_event = 0
    /\ sink_fails = FALSE
    /\ raised = FALSE

\* --------------------------------------------------------- fuse3 alone ----
\* One call of fuse3 on every combination of three inputs, each absent or an
\* Observation with or without a bearing, a confidence and a roi.  The
\* bearings include one finer than a hundredth of a degree and a negative
\* one, the confidences one finer than a thousandth and the values of
\* TestWeightFunction (absent, 0.0, 1.5).
SampleBearings == {None, 10004, 45000, -30000}
SampleConfs == {None, 0, 1234, 9000, 15000}
SampleTimes == [vision |-> 100, thermal |-> 200, audio |-> 300]

Inputs(src) ==
    {Absent} \cup
    {Observation(src, SampleTimes[src], b, r, c) :
        b \in SampleBearings, r \in {"none", src}, c \in SampleConfs}

FuseInit ==
    /\ ControlIdle
    /\ MonitorIdle
    /\ TailIdle
    /\ args \in [vision : Inputs("vision"), thermal : Inputs("thermal"),
                  audio : Inputs("audio")]
    /\ ret = <<>>
    /\ records = <<>>
    /\ pos = 1
    /\ latest = [vision |-> Absent, audio |-> Absent]
    /\ fused_log = <<>>

\* fuse3(vision, thermal, audio)
Fuse3 ==
    /\ ret = <<>>
    /\ ret' = <<fuse3(args.vision, args.thermal, args.audio)>>
    /\ UNCHANGED <<ctl_vars, monitor_vars, tail_vars, args, records, pos, latest, fused_log>>

FuseNext == Fuse3

FuseSpec == FuseInit /\ [][FuseNext]_vars

\* ------------------------------------------------ the batch fusion pass ----
\* fuse.max_gap_ms default, in milliseconds
MaxGapMs == 200

\* The observations of a run as load_observations returns them: the records
\* of the vision and the audio log, each with the time dict its producer
\* wrote and with or without a bearing, sorted by monotonic time.  Records
\* of equal time come in either order (the order of the files).
ReplayTimes == {k * (MaxGapMs \div 2) : k \in 0..MaxHalfGaps}
ReplayRecords ==
    {Observation(src, t, b, "none", None) :
        src \in {"vision", "audio"}, t \in ReplayTimes, b \in {None, 45000}}
get_mono_ms(obs) == obs.time
IsSorted(recs) ==
    \A i \in 1..Len(recs) - 1 : get_mono_ms(recs[i]) <= get_mono_ms(recs[i + 1])
load_observations ==
    {recs \in UNION {[1..n -> ReplayRecords] : n \in 1..MaxRecords} : IsSorted(recs)}

Abs(x) == IF x < 0 THEN -x ELSE x

\* the state of the loop of main(): the dict latest and the fused log
Pass == [latest |-> latest, fused_log |-> fused_log]

\* faulty variant: no staleness window
replay_record_nowindow(p, obs) ==
    LET lat == [p.latest EXCEPT ![obs.source] = obs]
        fused == fuse(lat.vision, lat.audio)
    IN IF ~fused.present THEN [p EXCEPT !.latest = lat]
       ELSE [latest |-> lat, fused_log |-> Append(p.fused_log, fused)]

\* one iteration of the loop of main() (lines 105-126)
replay_record(p, obs) ==
    LET lat == [p.latest EXCEPT ![obs.source] = obs]
        vision == lat.vision
        audio == lat.audio
        fused == fuse(vision, audio)
    IN IF /\ vision.present
          /\ audio.present
          /\ Abs(get_mono_ms(vision) - get_mono_ms(audio)) > MaxGapMs
       THEN [p EXCEPT !.latest = lat]
       ELSE IF ~fused.present THEN [p EXCEPT !.latest = lat]
       ELSE [latest |-> lat, fused_log |-> Append(p.fused_log, fused)]

ReplayInit ==
    /\ ControlIdle
    /\ MonitorIdle
    /\ TailIdle
    /\ args = [vision |-> Absent, thermal |-> Absent, audio |-> Absent]
    /\ ret = <<>>
    /\ records \in load_observations
    /\ pos = 1
    /\ latest = [vision |-> Absent, audio |-> Absent]
    /\ fused_log = <<>>

\* for record in records: ...
ReplayRecord ==
    /\ pos <= Len(records)
    /\ latest' = replay_record(Pass, records[pos]).latest
    /\ fused_log' = replay_record(Pass, records[pos]).fused_log
    /\ pos' = pos + 1
    /\ UNCHANGED <<ctl_vars, monitor_vars, tail_vars, args, ret, records>>

ReplayNext == ReplayRecord

ReplaySpec == ReplayInit /\ [][ReplayNext]_vars

\* ------------------------------------------- the loop with telemetry ----
\* The replay loop of main() (lines 385-392) in a dry run with the
\* defaults, while the telemetry producer appends to the telemetry log and
\* the log is removed.  The iterations are faster than the clock.
TelemetryInit ==
    /\ ControlIdle
    /\ FusionIdle
    /\ MonitorIdle
    /\ TailIdle

\* the telemetry producer appends a line (creating the log)
TelemetryAppend(line) ==
    /\ Len(telemetry.lines) < MaxLines
    /\ telemetry' = [exists |-> TRUE, lines |-> Append(telemetry.lines, line)]
    /\ UNCHANGED <<ctl_vars, fusion_vars, tail_vars, last_status>>

\* the telemetry log is removed
TelemetryRemove ==
    /\ telemetry.exists
    /\ telemetry' = [exists |-> FALSE, lines |-> <<>>]
    /\ UNCHANGED <<ctl_vars, fusion_vars, tail_vars, last_status>>

\* gate.update_link_status(monitor.update()); fsm.step(record)
LoopIteration(obs) ==
    /\ ~raised
    /\ Len(commands) < MaxCmds
    /\ last_status' = update(telemetry, last_status)
    /\ Store(step(update_link_status(World, update(telemetry, last_status)), obs))
    /\ UNCHANGED <<now, cfg, control, sink_fails, fusion_vars, tail_vars, telemetry>>

TelemetryNext ==
    \/ \E line \in TelemetryLines : TelemetryAppend(line)
    \/ TelemetryRemove
    \/ \E obs \in Observations : LoopIteration(obs)

TelemetrySpec == TelemetryInit /\ [][TelemetryNext]_vars

\* ------------------------------------------------- the live tailer ----
\* One producer appends to its source log while _run_fused_live polls it.
LiveInit ==
    /\ ControlIdle
    /\ FusionIdle
    /\ MonitorIdle
    /\ TailIdle

\* the producer appends a record, which reaches the file in one piece
WriteRecord ==
    /\ Complete(src_log)
    /\ NextRecord(src_log) <= MaxWrites
    /\ src_log' = Append(src_log, Piece(NextRecord(src_log), "whole"))
    /\ UNCHANGED <<ctl_vars, fusion_vars, monitor_vars, position, live_latest,
                   bridge_pos, bridge_sent, bridge_last_send>>

\* the head of a record reaches the file
WriteHead ==
    /\ Complete(src_log)
    /\ NextRecord(src_log) <= MaxWrites
    /\ src_log' = Append(src_log, Piece(NextRecord(src_log), "head"))
    /\ UNCHANGED <<ctl_vars, fusion_vars, monitor_vars, position, live_latest,
                   bridge_pos, bridge_sent, bridge_last_send>>

\* the rest of the record reaches the file
WriteTail ==
    /\ ~Complete(src_log)
    /\ src_log' = Append(src_log, Piece(src_log[Len(src_log)].rec, "tail"))
    /\ UNCHANGED <<ctl_vars, fusion_vars, monitor_vars, position, live_latest,
                   bridge_pos, bridge_sent, bridge_last_send>>

\* the tailer polls the source log
Poll ==
    /\ position' = tail_source(src_log, position, live_latest).position
    /\ live_latest' = tail_source(src_log, position, live_latest).latest
    /\ UNCHANGED <<ctl_vars, fusion_vars, monitor_vars, src_log,
                   bridge_pos, bridge_sent, bridge_last_send>>

LiveNext == WriteRecord \/ WriteHead \/ WriteTail \/ Poll

LiveSpec == LiveInit /\ [][LiveNext]_vars

\* ------------------------------------------------ the command bridge ----
\* command_bridge.py run on the directory of the controller: it tails the
\* commands log the controller appends to and dispatches what it reads
\* through a gate of its own.
\* control_bridge.max_rate_hz and allow_types defaults
BridgeRateHz == 5
BridgeAllowTypes == {"SET_YAW", "SET_MODE", "STOP"}

\* gate.can_send of the bridge: its gate is built with the two settings
\* above, its link status is "OK" as constructed and is never updated, and
\* its last send is that of the bridge
bridge_can_send(cmd_type) ==
    /\ cmd_type \in BridgeAllowTypes
    /\ (now - bridge_last_send) * BridgeRateHz >= TicksPerSec

\* One pass of the loop on a line it could read: the record is dispatched by
\* its type when the gate of the bridge answers yes, and dropped otherwise.
\* A dispatched call is kept with the allowed flag its record carried and
\* the link status of the vehicle at the time.
BridgeRead ==
    /\ bridge_pos < Len(commands)
    /\ LET cmd == commands[bridge_pos + 1]
       IN  IF bridge_can_send(cmd.type)
           THEN /\ bridge_sent' = Append(bridge_sent,
                        [type |-> cmd.type, allowed |-> cmd.allowed,
                         link |-> link_status, t |-> now])
                /\ bridge_last_send' = now
           ELSE UNCHANGED <<bridge_sent, bridge_last_send>>
    /\ bridge_pos' = bridge_pos + 1
    /\ UNCHANGED <<ctl_vars, fusion_vars, monitor_vars, src_log, position,
                   live_latest>>

BridgeInit == Init /\ cfg = DefaultConfig

BridgeNext == Next \/ BridgeRead

BridgeSpec == BridgeInit /\ [][BridgeNext]_vars

\* ------------------------------------------------- the fused log fed ----
\* The controller as main() runs it: every record it steps through comes
\* from the fused log and is fusion-sourced (an iteration without a record
\* included), first with every such record, then with those only whose
\* status OK comes with a bearing, as fuse3 writes them.
FusionObservations == {obs \in Observations : ~obs.present \/ obs.source = "fusion"}
BearingObservations ==
    {obs \in FusionObservations :
        (obs.present /\ obs.status = "OK") => obs.bearing_deg # None}

FusionFeedNext ==
    \/ Tick
    \/ \E s \in FsmLinkStatuses : UpdateLinkStatus(s)
    \/ \E obs \in FusionObservations : Step(obs)

FusionFeedSpec == Init /\ [][FusionFeedNext]_vars

BearingFeedNext ==
    \/ Tick
    \/ \E s \in FsmLinkStatuses : UpdateLinkStatus(s)
    \/ \E obs \in BearingObservations : Step(obs)

BearingFeedSpec == Init /\ [][BearingFeedNext]_vars

\* -------------------------------------------------- the failing sink ----
\* The controller with its defaults and a sink attached whose calls start
\* and stop raising (the vehicle link drops, the mode is not supported).  An
\* exception leaves step() and main(): the loop of lines 385-392 ends.
FailInit == Init /\ cfg = DefaultConfig /\ control

SinkFault ==
    /\ ~raised
    /\ sink_fails' = ~sink_fails
    /\ UNCHANGED <<now, cfg, control, last_send, last_cmd, link_status, last_vision,
                   last_audio, state, prev_state, last_seen, degraded_since,
                   active_source, commands, sink, events, last_event, raised,
                   fusion_vars, monitor_vars, tail_vars>>

FailNext == Next \/ SinkFault

FailSpec == FailInit /\ [][FailNext]_vars

\* ---------------------------------------------------- the events log ----
\* The controller with a sink attached, with and without the event cooldown.
AuditInit ==
    /\ now = StartTime
    /\ cfg \in AuditConfigs
    /\ control = TRUE
    /\ last_send = 0
    /\ last_cmd = 0
    /\ link_status = "OK"
    /\ last_vision = 0
    /\ last_audio = 0
    /\ state = IDLE
    /\ prev_state = IDLE
    /\ last_seen = StartTime
    /\ degraded_since = None
    /\ active_source = "fused"
    /\ commands = <<>>
    /\ sink = <<>>
    /\ events = <<>>
    /\ last_event = 0
    /\ sink_fails = FALSE
    /\ raised = FALSE
    /\ FusionIdle
    /\ MonitorIdle
    /\ TailIdle

AuditSpec == AuditInit /\ [][Next]_vars

\* ------------------------------------------------------------- claims ----
\* helpers of the formulas
Ticks(sec) == sec * TicksPerSec
CountType(log, cmd_type) == Cardinality({i \in 1..Len(log) : log[i].type = cmd_type})
ReturnRecord(allowed) ==
    [type |-> "SET_MODE", params |-> <<"mode", "RTL">>, allowed |-> allowed,
     note |-> "fsm-return"]
StopRecord(allowed) ==
    [type |-> "STOP", params |-> <<>>, allowed |-> allowed, note |-> "fsm-lost"]
\* the health status the step given obs acts on
HealthSeen(obs) == status(UpdateHealth(World, obs))
\* the action the configuration gives for a health status
ConfiguredAction(h) ==
    CASE h = "VISION_FAIL" -> cfg.vision_fail_action
      [] h = "AUDIO_FAIL" -> cfg.audio_fail_action
      [] h = "BOTH_FAIL" -> cfg.both_fail_action
      [] OTHER -> "none"
\* step() runs its main logic on obs (line 261)
ValidObservation(obs) == obs.present /\ obs.status = "OK" /\ obs.bearing_deg # None
\* the controller when the step given obs reaches its main logic (line 260)
MainLogicEntry(obs) ==
    LET d == DegradeCheck(UpdateHealth(World, obs))
    IN  IF d.done THEN d.w ELSE AutoRecover(d.w)
\* the state after the advances IDLE -> SEARCH -> SCAN of a valid observation
AdvancedState(s) == IF s \in {IDLE, SEARCH} THEN SCAN ELSE s
\* the step that produced w appended a SET_YAW record
YawDecision(w) ==
    /\ Len(w.commands) = Len(commands) + 1
    /\ w.commands[Len(w.commands)].type = "SET_YAW"
\* the heading rule of each active_source
YawWarranted(src, sources, conf) ==
    \/ src = "audio_only" /\ "audio" \in sources /\ conf >= AudioTriggerConf
    \/ src = "vision_only" /\ "vision" \in sources
    \/ src = "fused" /\ "vision" \in sources
    \/ src = "fused" /\ "audio" \in sources /\ "vision" \notin sources
          /\ conf >= AudioTriggerConf
\* the step that produced w entered LOCKED
EntersLocked(w) ==
    \/ w.state = LOCKED /\ state # LOCKED
    \/ w.prev_state = LOCKED /\ prev_state # LOCKED
\* the events log holds every transition made since construction, in order
EventChain ==
    /\ events = <<>> => state = IDLE
    /\ events # <<>> =>
          /\ events[1].note[1] = IDLE
          /\ events[Len(events)].note[2] = state
          /\ events[Len(events)].note[1] = prev_state
    /\ \A i \in 1..Len(events) :
          /\ events[i].type = "MODE_CHANGED"
          /\ events[i].note[1] # events[i].note[2]
          /\ i > 1 => events[i].note[1] = events[i - 1].note[2]
\* obs names the sensor as its source or among its sources (fusion names both)
Names(obs, sensor) ==
    obs.present /\ (obs.source = sensor \/ sensor \in obs.sources \/ obs.source = "fusion")
\* the controller as constructed: no status-OK observation has arrived and
\* no step has left IDLE
Cold == state = IDLE /\ last_vision = 0 /\ last_audio = 0 /\ commands = <<>>
\* the controller with a sink attached and in a dry run (control = None)
Attached(w) == [w EXCEPT !.control = TRUE]
DryRun(w) == [w EXCEPT !.control = FALSE]
\* what the two share: everything but the sink and its calls
Observable(w) == [w EXCEPT !.control = FALSE, !.sink = <<>>]
\* this transition is a LOST -> SEARCH resume
Resumes == state # SEARCH /\ state' = SEARCH /\ prev_state' = LOST

\* C1: every call the sink receives is made at an instant at which the gate's
\* can_send for that command type is true, hence with link_status "OK", and,
\* for max_rate_hz > 0, at least 1/max_rate_hz after the previous call.
C1_DispatchOnlyWhenGateAllows ==
    [][sink' # sink =>
        /\ Len(sink') = Len(sink) + 1
        /\ SubSeq(sink', 1, Len(sink)) = sink
        /\ LET call == sink'[Len(sink')]
           IN  /\ call.t = now
               /\ can_send(World, call.type)
               /\ link_status = "OK"
               /\ (cfg.max_rate_hz > 0 /\ sink # <<>>) =>
                     (call.t - sink[Len(sink)].t) * cfg.max_rate_hz >= TicksPerSec]_vars

\* two calls reached the sink under a positive rate limit
C1_Witness == cfg.max_rate_hz > 0 /\ Len(sink) >= 2

C3_RateLimitWindow ==
    (cfg.max_rate_hz > 0 /\ link_status = "OK" /\ last_send > 0) =>
        \A t \in cfg.allow_types :
            can_send(World, t) <=> (now - last_send) * cfg.max_rate_hz >= TicksPerSec

\* a mark_sent() was made and the interval has since elapsed
C3_Witness ==
    /\ cfg.max_rate_hz > 0
    /\ link_status = "OK"
    /\ last_send > 0
    /\ now > last_send
    /\ can_send(World, "SET_YAW")

\* C4: once the state is RETURN it stays RETURN through every later step,
\* link update and clock advance, and the commands log no longer grows.
C4_ReturnAbsorbing ==
    [][state = RETURN => state' = RETURN /\ commands' = commands]_vars

\* a valid observation was processed after the state had become RETURN
C4_Witness ==
    /\ state = RETURN
    /\ CountType(commands, "SET_MODE") = 1
    /\ events # <<>>
    /\ events[Len(events)].note[2] = RETURN
    /\ last_seen > last_event

\* C5: with both_fail_action = "return", a step that sees BOTH_FAIL health ends
\* in RETURN, or, when it began in DEGRADED, stays DEGRADED only until
\* max_degraded_sec is exceeded; and the commands log holds exactly one
\* SET_MODE (RTL) record when the state is RETURN and none before.
C5_BothFailReturnsOnce ==
    cfg.both_fail_action = "return" =>
        /\ \A obs \in Observations :
              HealthSeen(obs) = "BOTH_FAIL" =>
                 LET w == step(World, obs)
                 IN  \/ w.state = RETURN
                     \/ /\ state = DEGRADED
                        /\ w.state = DEGRADED
                        /\ now - degraded_since <= Ticks(cfg.max_degraded_sec)
        /\ CountType(commands, "SET_MODE") = (IF state = RETURN THEN 1 ELSE 0)
        /\ \A i \in 1..Len(commands) :
              commands[i].type = "SET_MODE" => commands[i].params = <<"mode", "RTL">>

\* BOTH_FAIL health took a tracking controller to RETURN
C5_Witness ==
    /\ cfg.both_fail_action = "return"
    /\ state = RETURN
    /\ prev_state \in {SCAN, TRACK}
    /\ status(World) = "BOTH_FAIL"
    /\ CountType(commands, "SET_MODE") = 1

\* C6 as claimed: every entry into RETURN with a sink attached puts one
\* set_mode RTL call on the sink, whatever the rate limiter and the link say.
C6_ReturnAlwaysDispatched ==
    [][(state # RETURN /\ state' = RETURN /\ control) =>
          sink' = Append(sink, [type |-> "SET_MODE", t |-> now])]_vars

\* C6 as amended: every entry into RETURN logs one SET_MODE RTL decision whose
\* allowed flag is the gate's can_send("SET_MODE"); the call reaches the
\* attached sink exactly when that is true; in RETURN nothing is sent again.
C6_ReturnDispatchedIfGateAllows ==
    [][/\ (state # RETURN /\ state' = RETURN) =>
            /\ commands' = Append(commands, ReturnRecord(can_send(World, "SET_MODE")))
            /\ sink' = IF control /\ can_send(World, "SET_MODE")
                       THEN Append(sink, [type |-> "SET_MODE", t |-> now])
                       ELSE sink
       /\ state = RETURN => sink' = sink]_vars

\* RETURN was entered with a sink attached and the RTL call was withheld
C6_Witness ==
    /\ control
    /\ state = RETURN
    /\ \E i \in 1..Len(commands) : commands[i] = ReturnRecord(FALSE)
    /\ \A i \in 1..Len(sink) : sink[i].type # "SET_MODE"

\* C7 as claimed: a step from TRACK with health OK, no valid observation, the
\* lost timeout exceeded and the gate's TTL not expired ends in LOST.
C7_LostHeldUntilTtlExpires ==
    \A obs \in Observations :
        (/\ state = TRACK
         /\ ~(obs.present /\ obs.status = "OK" /\ obs.bearing_deg # None)
         /\ HealthSeen(obs) = "ALL_OK"
         /\ now - last_seen > Ticks(cfg.lost_timeout_sec)
         /\ ~expired(World))
        => step(World, obs).state = LOST

\* C8 as claimed: a transition is a LOST -> SEARCH resume exactly when it
\* appends one STOP record (allowed or denied) to the commands log.
C8_StopWithEveryResume ==
    [][/\ Resumes => \E a \in BOOLEAN : commands' = Append(commands, StopRecord(a))
       /\ (commands' # commands /\ commands'[Len(commands')].type = "STOP") => Resumes]_vars

\* C9: an FSM that no step has touched is in IDLE, and one step with a valid
\* fused observation (source fusion, status OK, bearing present) ends in SCAN,
\* LOCKED or TRACK.
C9_FirstFusedObservationReachesScan ==
    (last_vision = 0 /\ last_audio = 0 /\ events = <<>> /\ commands = <<>>) =>
        /\ state = IDLE
        /\ \A obs \in Observations :
              (obs.present /\ obs.source = "fusion" /\ obs.status = "OK"
                 /\ obs.bearing_deg # None)
              => step(World, obs).state \in {SCAN, LOCKED, TRACK}

\* the first step, given a valid fused observation, left IDLE for SCAN or beyond
C9_Witness ==
    /\ state \in {SCAN, LOCKED, TRACK}
    /\ events = <<[type |-> "MODE_CHANGED",
                   note |-> <<IDLE, SEARCH, "observation_received">>]>>
    /\ last_vision = last_seen
    /\ last_audio = last_seen
    /\ Len(commands) <= 1

\* C10: a step that sees VISION_FAIL, AUDIO_FAIL or BOTH_FAIL in a state other
\* than DEGRADED and RETURN: when the action configured for that failure is
\* "return" it ends in RETURN having appended one SET_MODE RTL record and left
\* last_seen, active_source and degraded_since alone; otherwise it ends in
\* DEGRADED with degraded_since the step time and active_source the action.
C10_DegradationStep ==
    \A obs \in Observations :
        LET h == HealthSeen(obs)
            act == ConfiguredAction(h)
            w == step(World, obs)
        IN  (h # "ALL_OK" /\ state \notin {DEGRADED, RETURN}) =>
               IF act = "return"
               THEN /\ w.state = RETURN
                    /\ \E a \in BOOLEAN : w.commands = Append(commands, ReturnRecord(a))
                    /\ w.last_seen = last_seen
                    /\ w.active_source = active_source
                    /\ w.degraded_since = degraded_since
               ELSE /\ act \in {"audio_only", "vision_only"}
                    /\ w.state = DEGRADED
                    /\ w.degraded_since = now
                    /\ w.active_source = act

\* a VISION_FAIL step has just put a tracking controller into DEGRADED
C10_Witness ==
    /\ state = DEGRADED
    /\ prev_state \in {SCAN, TRACK}
    /\ status(World) = "VISION_FAIL"
    /\ degraded_since = now
    /\ active_source = cfg.vision_fail_action

\* C11 as claimed: a step that begins in DEGRADED with more than
\* max_degraded_sec elapsed since degraded_since ends in RETURN and appends a
\* SET_MODE RTL record, whatever the health status and the auto_recover flag.
C11_DegradedTimeoutForcesReturn ==
    \A obs \in Observations :
        (/\ state = DEGRADED
         /\ degraded_since # None
         /\ now - degraded_since > Ticks(cfg.max_degraded_sec))
        => LET w == step(World, obs)
           IN  /\ w.state = RETURN
               /\ \E a \in BOOLEAN : w.commands = Append(commands, ReturnRecord(a))

\* C12: a step that begins in DEGRADED and sees ALL_OK health with
\* auto_recover enabled makes the transition DEGRADED -> SEARCH (it ends in
\* SEARCH, or in SCAN or TRACK when its observation is valid and the main
\* logic advances from SEARCH), with active_source "fused" and degraded_since
\* cleared; with auto_recover disabled a step from DEGRADED ends in DEGRADED
\* or RETURN, never in SEARCH or beyond.
C12_AutoRecovery ==
    \A obs \in Observations :
        LET w == step(World, obs)
        IN  state = DEGRADED =>
               /\ (cfg.auto_recover /\ HealthSeen(obs) = "ALL_OK") =>
                     /\ AutoRecover(UpdateHealth(World, obs)).state = SEARCH
                     /\ w.active_source = "fused"
                     /\ w.degraded_since = None
                     /\ IF ValidObservation(obs)
                        THEN \/ w.state = SCAN /\ w.prev_state = SEARCH
                             \/ w.state = TRACK /\ w.prev_state = LOCKED
                        ELSE w.state = SEARCH /\ w.prev_state = DEGRADED
               /\ ~cfg.auto_recover => w.state \in {DEGRADED, RETURN}

\* a step without an observation has just recovered the controller to SEARCH
C12_Witness ==
    /\ cfg.auto_recover
    /\ state = SEARCH
    /\ prev_state = DEGRADED
    /\ active_source = "fused"
    /\ degraded_since = None
    /\ status(World) = "ALL_OK"

\* C13: a step makes a SET_YAW decision (one record appended, its allowed flag
\* the gate's answer) exactly when its observation is valid, the state after
\* the IDLE/SEARCH advances is SCAN, LOCKED, TRACK or DEGRADED, and the rule of
\* the active_source is met: audio_only needs audio and confidence >=
\* audio_trigger_conf, vision_only needs vision, fused needs vision, or audio
\* without vision and confidence >= audio_trigger_conf.  Hence none is made
\* from LOST or RETURN or on an invalid observation.
C13_YawDecision ==
    \A obs \in Observations :
        LET e == MainLogicEntry(obs)
            w == step(World, obs)
        IN  /\ YawDecision(w) <=>
                  /\ ValidObservation(obs)
                  /\ AdvancedState(e.state) \in {SCAN, LOCKED, TRACK, DEGRADED}
                  /\ YawWarranted(e.active_source, obs.sources, obs.confidence)
            /\ YawDecision(w) =>
                  w.commands[Len(w.commands)] =
                     [type |-> "SET_YAW", params |-> <<"yaw", obs.bearing_deg, YawRate>>,
                      allowed |-> can_send(World, "SET_YAW"), note |-> "fsm"]
            /\ (state \in {LOST, RETURN} \/ ~ValidObservation(obs)) => ~YawDecision(w)

\* an audio record drove a heading decision under active_source audio_only
C13_Witness ==
    /\ state = DEGRADED
    /\ active_source = "audio_only"
    /\ last_seen = now
    /\ commands # <<>>
    /\ commands[Len(commands)].type = "SET_YAW"

\* C14: a step enters LOCKED only with a valid observation that lists vision
\* among its sources with confidence >= lock_conf, and only from SCAN; every
\* logged transition into LOCKED comes from SCAN; a step from SCAN whose
\* observation lacks vision or has a lower confidence ends neither in LOCKED
\* nor in TRACK.
C14_LockedOnlyFromScanWithVision ==
    /\ \A obs \in Observations :
          LET e == MainLogicEntry(obs)
              w == step(World, obs)
          IN  /\ EntersLocked(w) =>
                    /\ ValidObservation(obs)
                    /\ "vision" \in obs.sources
                    /\ obs.confidence >= LockConf
                    /\ AdvancedState(e.state) = SCAN
              /\ (state = SCAN /\ ("vision" \notin obs.sources \/ obs.confidence < LockConf))
                    => w.state \notin {LOCKED, TRACK}
    /\ \A i \in 1..Len(events) :
          events[i].note[2] = LOCKED =>
             events[i].note[1] = SCAN /\ events[i].note[3] = "vision_confirmed"

\* the log shows a promotion SCAN -> LOCKED made in a later step than the
\* one that reached SCAN
C14_Witness ==
    /\ now > StartTime
    /\ events # <<>>
    /\ events[1].note[1] = IDLE
    /\ \E i \in 1..Len(events) : events[i].note = <<SCAN, LOCKED, "vision_confirmed">>
    /\ \E i \in 1..Len(commands) : commands[i].type = "SET_YAW"
    /\ prev_state = LOCKED

\* C15 as claimed: a step that begins outside LOCKED and TRACK never ends in
\* TRACK: LOCKED -> TRACK is made on a later step than SCAN -> LOCKED.
C15_TrackOnlyOnLaterStep ==
    \A obs \in Observations :
        state \notin {LOCKED, TRACK} => step(World, obs).state # TRACK

\* C15 as amended: the step that promotes SCAN to LOCKED also promotes LOCKED
\* to TRACK: a step not cut short by a raising sink whose valid observation
\* lists vision with confidence >= lock_conf, with the state SCAN after the
\* advances, ends in TRACK entered from LOCKED; TRACK is entered only so;
\* and no step ends in LOCKED.
C15_LockedAndTrackInOneStep ==
    /\ state # LOCKED
    /\ \A obs \in Observations :
          LET e == MainLogicEntry(obs)
              w == step(World, obs)
          IN  ~w.raised =>
                /\ (/\ ValidObservation(obs)
                    /\ AdvancedState(e.state) = SCAN
                    /\ "vision" \in obs.sources
                    /\ obs.confidence >= LockConf)
                   => (w.state = TRACK /\ w.prev_state = LOCKED)
                /\ (w.state = TRACK /\ state # TRACK) =>
                      /\ ValidObservation(obs)
                      /\ obs.confidence >= LockConf
                      /\ w.prev_state = LOCKED
                /\ w.state # LOCKED

\* the first step took a fresh controller from IDLE to TRACK
C15_Witness ==
    /\ state = TRACK
    /\ prev_state = LOCKED
    /\ now = StartTime
    /\ last_seen = now
    /\ Len(events) = 1
    /\ events[1].note[1] = IDLE

\* C16 as claimed: when a call of the sink raises during a step, mark_sent has
\* still been made for the attempt: the gate's last-send time is the step time
\* and can_send is false for the following 1/max_rate_hz.
C16_MarkSentDespiteFailure ==
    \A obs \in Observations :
        LET w == step(World, obs)
        IN  (~raised /\ w.raised) =>
               /\ w.last_send = now
               /\ w.last_cmd = now
               /\ cfg.max_rate_hz > 0 => \A t \in CmdTypes : ~can_send(w, t)

\* C17: a transition appends at most one record to the commands log and
\* leaves the earlier records alone; the record's allowed flag is the gate's
\* can_send for its type in the state the step began in, true or false; a
\* call reaches the sink only together with a record of its type logged with
\* allowed true; and when the sink's call raises, that record is already in
\* the log.
C17_CommandLogging ==
    [][/\ Len(commands') \in {Len(commands), Len(commands) + 1}
       /\ SubSeq(commands', 1, Len(commands)) = commands
       /\ commands' # commands =>
             commands'[Len(commands')].allowed
                = can_send(World, commands'[Len(commands')].type)
       /\ sink' # sink =>
             /\ commands' # commands
             /\ commands'[Len(commands')].allowed
             /\ sink' = Append(sink, [type |-> commands'[Len(commands')].type, t |-> now])
       /\ (raised' /\ ~raised) =>
             /\ commands' # commands
             /\ commands'[Len(commands')].allowed
             /\ sink' = sink]_vars

\* the log holds a denied decision after a dispatched one
C17_Witness ==
    /\ Len(commands) = 2
    /\ commands[1].allowed
    /\ ~commands[2].allowed
    /\ Len(sink) = 1
    /\ sink[1].type = commands[1].type

C19_HealthStatus ==
    LET T == Ticks(cfg.lost_timeout_sec)
        v == now - last_vision < T
        a == now - last_audio < T
        st == status(World)
    IN  /\ st = (IF v /\ a THEN "ALL_OK" ELSE IF v THEN "AUDIO_FAIL"
                 ELSE IF a THEN "VISION_FAIL" ELSE "BOTH_FAIL")
        /\ now - last_vision = T => st \in {"VISION_FAIL", "BOTH_FAIL"}
        /\ now - last_audio = T => st \in {"AUDIO_FAIL", "BOTH_FAIL"}
        /\ (last_vision = 0 /\ last_audio = 0) => st = "BOTH_FAIL"
        /\ (now - last_vision >= T /\ now - last_audio >= T) => st = "BOTH_FAIL"

\* both sensors were updated exactly the timeout ago
C19_Witness ==
    /\ last_vision > 0
    /\ last_audio = last_vision
    /\ now - last_vision = Ticks(cfg.lost_timeout_sec)
    /\ status(World) = "BOTH_FAIL"

\* C20 as claimed: a step whose observation names vision (audio) as its source
\* or among its sources, or whose source is "fusion", sets the vision (audio)
\* timestamp to the step time, whatever the observation's status.
C20_HealthRefreshedWhateverStatus ==
    \A obs \in Observations :
        LET w == step(World, obs)
        IN  /\ Names(obs, "vision") => w.last_vision = now
            /\ Names(obs, "audio") => w.last_audio = now
\* ------------------------------------------------------------------------
\* C21  can_send(t) is true exactly when t is allow-listed, the link status
\* is "OK" and either max_rate_hz <= 0 or at least 1/max_rate_hz has passed
\* since the last mark_sent; with max_rate_hz <= 0 no number of mark_sent
\* calls limits the rate; for a type outside the allow-list the answer is
\* false and the gate is as it was.
C21_CanSendExactly ==
    \A t \in CmdTypes :
        /\ can_send(World, t) <=>
               /\ t \in cfg.allow_types
               /\ link_status = "OK"
               /\ \/ cfg.max_rate_hz <= 0
                  \/ (now - last_send) * cfg.max_rate_hz >= TicksPerSec
        /\ (cfg.max_rate_hz <= 0 /\ t \in cfg.allow_types /\ link_status = "OK")
               => can_send(mark_sent(World), t)
        /\ t \notin cfg.allow_types =>
               ~can_send(World, t) /\ after_can_send(World, t) = World

\* a command was marked sent this instant, the rate limit is off, a type
\* outside the allow-list exists, and the next command may go
C21_Witness ==
    /\ cfg.max_rate_hz <= 0
    /\ cfg.allow_types # DefaultAllowTypes
    /\ now > StartTime
    /\ last_send = now
    /\ can_send(World, "SET_YAW")
    /\ ~can_send(World, "STOP")

C23_GateFrame ==
    /\ \A t \in CmdTypes : after_can_send(World, t) = World
    /\ after_expired(World) = World
    /\ \A s \in LinkStatuses :
           update_link_status(World, s) = [World EXCEPT !.link_status = s]
    /\ mark_sent(World).last_send = now
    /\ mark_sent(World).last_cmd = now
    /\ mark_sent(World) = [World EXCEPT !.last_send = now, !.last_cmd = now]

\* a command was marked sent at an earlier instant, both timestamps hold
\* that instant, and the link status was updated since
C23_Witness ==
    /\ last_send = last_cmd
    /\ last_send >= StartTime
    /\ last_send < now
    /\ link_status = "DEGRADED"
    /\ cfg.max_rate_hz = 2

\* ------------------------------------------------------------------------
\* the inputs of the call that carry a bearing, and their bearings
Contributing == Candidates(args.vision, args.thermal, args.audio)
ContributingBearings ==
    {Contributing[i].obs.bearing_deg : i \in 1..Len(Contributing)}
Lowest(S) == CHOOSE x \in S : \A y \in S : x <= y
Highest(S) == CHOOSE x \in S : \A y \in S : x >= y
Returned == ret # <<>>

CarriesBearing(o) == o.present /\ o.bearing_deg # None
BearingSources ==
    SelectSeq(<<"vision", "thermal", "audio">>, LAMBDA n : CarriesBearing(args[n]))

Clamp(c) == IF c < WeightMin THEN WeightMin ELSE IF c > WeightMax THEN WeightMax ELSE c
\* the weights of the inputs that carried a bearing
ContributingWeights ==
    {_weight(Contributing[i].obs.confidence) : i \in 1..Len(Contributing)}
WeightLaw ==
    /\ \A c \in SampleConfs :
           _weight(c) = IF c = None THEN WeightNone ELSE Clamp(c)
    /\ _weight(0) = WeightMin
    /\ _weight(15000) = WeightMax
    /\ \A c1, c2 \in SampleConfs \ {None} : c1 <= c2 => _weight(c1) <= _weight(c2)

Wrote == Len(fused_log') = Len(fused_log) + 1
Written == fused_log'[Len(fused_log')]

\* C27  The batch pass never writes a record that combines a vision and an
\* audio reading more than max_gap_ms apart: whenever it writes a record
\* with status OK, the two readings it fused differ by at most max_gap_ms.
C27_NoStalePairFused ==
    [][(Wrote /\ Written.status = "OK") =>
          /\ latest'.vision.present
          /\ latest'.audio.present
          /\ Abs(latest'.vision.time - latest'.audio.time) <= MaxGapMs]_vars

\* a pair was fused, and a later reading more than max_gap_ms away from the
\* other source's latest one was dropped
C27_Witness ==
    /\ pos > Len(records)
    /\ Len(records) = MaxRecords
    /\ Len(fused_log) = MaxRecords - 1
    /\ fused_log[Len(fused_log)].status = "OK"
    /\ latest.vision.bearing_deg # None
    /\ latest.audio.bearing_deg # None
    /\ Abs(latest.vision.time - latest.audio.time) > MaxGapMs

\* ------------------------------------------------------------------------
\* C29  The fused log the batch pass writes is in non-decreasing order of
\* monotonic time, whatever the input records.
C29_FusedLogInTimeOrder ==
    \A i \in 1..Len(fused_log) - 1 : fused_log[i].time <= fused_log[i + 1].time

\* ------------------------------------------------------------------------
\* the record of this iteration and the latest record of the other source
Current == records[pos]
OtherSource == IF Current.source = "vision" THEN "audio" ELSE "vision"

\* C30  The staleness drop applies only when both latest records carry a
\* bearing: when the record of an iteration carries a bearing and the
\* latest record of the other source carries none, the iteration writes a
\* DEGRADED record of the one source.
C30_NoBearingNeverDrops ==
    [][(/\ pos' = pos + 1
        /\ Current.bearing_deg # None
        /\ latest[OtherSource].bearing_deg = None) =>
          /\ Wrote
          /\ Written.status = "DEGRADED"
          /\ Written.sources = <<Current.source>>
          /\ Written.time = Current.time]_vars

\* ------------------------------------------------------------------------
\* the parseable records of the telemetry log
Parseable ==
    IF telemetry.exists
    THEN {i \in 1..Len(telemetry.lines) : telemetry.lines[i].parseable}
    ELSE {}
\* the status a call of update() has to return now
StatusDue ==
    IF Parseable = {} THEN last_status
    ELSE telemetry.lines[Highest(Parseable)].link_status

\* C28  update() returns the link_status of the last parseable record of
\* the telemetry log, and the gate holds that value in the step that
\* follows; when the log is missing or has no parseable record it returns
\* the status it returned before, which is "OK" at first.
C28_TelemetryFeedsGate ==
    [][telemetry' = telemetry =>
          /\ last_status' = StatusDue
          /\ link_status' = StatusDue
          /\ (commands' # commands /\ StatusDue # "OK") =>
                 ~commands'[Len(commands')].allowed]_vars

\* the log was removed after a LOST record was read and the gate still
\* holds LOST, while a step logged a refused command
C28_Witness ==
    /\ ~telemetry.exists
    /\ last_status = "LOST"
    /\ link_status = "LOST"
    /\ commands # <<>>
    /\ ~commands[Len(commands)].allowed

\* ------------------------------------------------------------------------
\* the fused record fuse3 builds from one sensor's reading alone
FusedAlone(src, conf) ==
    LET reading == Observation(src, 0, Bearing * 1000, "none", conf)
    IN FusedObs(fuse3(IF src = "vision" THEN reading ELSE Absent, Absent,
                      IF src = "audio" THEN reading ELSE Absent))

\* C31  While the controller is DEGRADED with active_source audio_only, a
\* fused observation built from an audio candidate alone with confidence
\* >= audio_trigger_conf leads to a SET_YAW decision, and so does one built
\* from a vision candidate alone under vision_only.
C31_SurvivingSensorDrivesYaw ==
    \A conf \in SampleConfs :
        /\ (/\ state = DEGRADED
            /\ active_source = "audio_only"
            /\ FusedAlone("audio", conf).confidence >= AudioTriggerConf) =>
               YawDecision(step(World, FusedAlone("audio", conf)))
        /\ (state = DEGRADED /\ active_source = "vision_only") =>
               YawDecision(step(World, FusedAlone("vision", conf)))

\* ------------------------------------------------------------------------
\* C32  With one producer appending to a source log while the tailer polls
\* it, no record the producer finished is skipped for good: once the tailer
\* has read up to the end of a log that ends with a finished record, that
\* record is the source's latest value, even if a poll saw it half written.
C32_NoCompletedRecordSkipped ==
    (/\ src_log # <<>>
     /\ Complete(src_log)
     /\ position = Len(src_log)) =>
        live_latest = src_log[Len(src_log)].rec

\* ------------------------------------------------------------------------
\* the step given obs runs into the observation timeout (lines 306-308)
TimesOut(obs) ==
    LET e == MainLogicEntry(obs)
    IN  /\ ~DegradeCheck(UpdateHealth(World, obs)).done
        /\ ~ValidObservation(obs)
        /\ e.state \in {SCAN, LOCKED, TRACK}
        /\ now - e.last_seen > Ticks(cfg.lost_timeout_sec)

\* C33  LOST is never the state at the end of a step: a step that enters
\* LOST on the observation timeout leaves it for SEARCH before it returns,
\* whether or not the TTL of the gate has expired.
C33_LostNeverAtEndOfStep ==
    /\ ~raised => state # LOST
    /\ \A obs \in Observations :
           LET w == step(World, obs)
           IN  ~w.raised =>
                  /\ w.state # LOST
                  /\ TimesOut(obs) => (w.state = SEARCH /\ w.prev_state = LOST)

\* a step ran into the timeout while the TTL of the gate had not expired
\* and ended in SEARCH without a STOP decision
C33_Witness ==
    /\ state = SEARCH
    /\ prev_state = LOST
    /\ ~expired(World)
    /\ commands # <<>>
    /\ CountType(commands, "STOP") = 0

\* ------------------------------------------------------------------------
\* C34  Fed with fusion-sourced observations whose status OK always comes
\* with a bearing, the controller never enters LOST: when the lost timeout
\* has elapsed the health is BOTH_FAIL, and the degradation check has moved
\* the state to RETURN or DEGRADED before the timeout is looked at.
C34_NeverLostOnFusedFeed ==
    /\ state # LOST
    /\ prev_state # LOST
    /\ \A i \in 1..Len(events) : events[i].note[2] # LOST
    /\ \A obs \in BearingObservations :
           /\ ~TimesOut(obs)
           /\ (now - last_seen > Ticks(cfg.lost_timeout_sec)) =>
                  /\ HealthSeen(obs) = "BOTH_FAIL" \/ ValidObservation(obs)
                  /\ ~ValidObservation(obs) =>
                         step(World, obs).state \in {RETURN, DEGRADED}

\* a target was tracked, the lost timeout elapsed, and the step that saw it
\* went from TRACK to DEGRADED on the failure of both sensors
C34_Witness ==
    /\ state = DEGRADED
    /\ prev_state = TRACK
    /\ now - last_seen > Ticks(cfg.lost_timeout_sec)
    /\ status(World) = "BOTH_FAIL"

\* ------------------------------------------------------------------------
\* C35  Fed with fusion-sourced observations only, the vision and the audio
\* timestamps of the health monitor are always equal, so the health is
\* ALL_OK or BOTH_FAIL and never VISION_FAIL or AUDIO_FAIL, also after a
\* fused record whose extras.sources names one sensor only.
C35_FusedFeedKeepsSensorsTogether ==
    /\ last_vision = last_audio
    /\ status(World) \in {"ALL_OK", "BOTH_FAIL"}
    /\ \A obs \in FusionObservations :
           LET w == UpdateHealth(World, obs)
           IN  /\ w.last_vision = w.last_audio
               /\ status(w) \in {"ALL_OK", "BOTH_FAIL"}
               /\ step(World, obs).last_vision = step(World, obs).last_audio

\* both timestamps were refreshed together by a fused record and have since
\* timed out together; a fused record naming audio alone restores both
C35_Witness ==
    /\ last_vision > 0
    /\ last_vision = last_audio
    /\ status(World) = "BOTH_FAIL"
    /\ \E obs \in FusionObservations :
           /\ obs.status = "OK"
           /\ obs.sources = {"audio"}
           /\ status(UpdateHealth(World, obs)) = "ALL_OK"

\* ------------------------------------------------------------------------
\* C36  Cold start with both_fail_action = "return": the health is BOTH_FAIL
\* as long as no status-OK observation has arrived; a first step that
\* carries no status-OK observation moves IDLE to RETURN and logs exactly
\* one SET_MODE RTL attempt; and from there the state stays RETURN, so
\* SEARCH, SCAN, LOCKED and TRACK are never reached.
C36_ColdStartReturns ==
    [][cfg.both_fail_action = "return" =>
          /\ (last_vision = 0 /\ last_audio = 0) => status(World) = "BOTH_FAIL"
          /\ Cold =>
                \A obs \in Observations :
                    (~obs.present \/ obs.status # "OK") =>
                        LET w == step(World, obs)
                        IN  /\ w.state = RETURN
                            /\ w.prev_state = IDLE
                            /\ w.commands = <<ReturnRecord(can_send(World, "SET_MODE"))>>
          /\ (state = RETURN /\ prev_state = IDLE) =>
                /\ state' = RETURN
                /\ prev_state' = IDLE
                /\ commands' = commands
          /\ (last_vision = 0 /\ last_audio = 0) => state \in {IDLE, RETURN}]_vars

\* the first step came without a status-OK observation and went to RETURN;
\* a later step brought a valid observation and the state is still RETURN
C36_Witness ==
    /\ state = RETURN
    /\ prev_state = IDLE
    /\ commands = <<ReturnRecord(TRUE)>>
    /\ last_vision > 0
    /\ last_seen > StartTime

\* ------------------------------------------------------------------------
\* C37  In every reachable state: outside DEGRADED and RETURN the active
\* source is "fused" and degraded_since is unset; in DEGRADED the active
\* source is audio_only or vision_only and degraded_since is set.
C37_ActiveSourceFollowsState ==
    /\ state \notin {DEGRADED, RETURN} =>
          (active_source = "fused" /\ degraded_since = None)
    /\ state = DEGRADED =>
          /\ active_source \in {"audio_only", "vision_only"}
          /\ degraded_since # None
          /\ degraded_since > 0

\* the controller was DEGRADED, recovered to SEARCH, and runs fused again
C37_Witness ==
    /\ prev_state = DEGRADED
    /\ state = SEARCH
    /\ active_source = "fused"
    /\ degraded_since = None
    /\ \E i \in 1..Len(events) : events[i].note[2] = DEGRADED

\* ------------------------------------------------------------------------
\* C38  While the state remains DEGRADED, active_source and degraded_since
\* keep the values set on entry: no step changes them, whatever failure the
\* health reports in it, so the max_degraded_sec timer is not restarted and
\* the fallback source is not switched.
C38_DegradedKeepsSourceAndTimer ==
    [][(state = DEGRADED /\ state' = DEGRADED) =>
          /\ active_source' = active_source
          /\ degraded_since' = degraded_since]_vars

\* DEGRADED was entered on VISION_FAIL with the audio fallback; a step at the
\* current instant saw a vision record with the audio timed out (AUDIO_FAIL),
\* and the fallback source and the timer are those of the entry
C38_Witness ==
    /\ state = DEGRADED
    /\ active_source = "audio_only"
    /\ degraded_since < now
    /\ status(World) = "AUDIO_FAIL"
    /\ ConfiguredAction("AUDIO_FAIL") # active_source
    /\ last_vision = now
    /\ last_seen = now

\* ------------------------------------------------------------------------
\* C39  Dry-run equivalence: given the same observation at the same clock
\* reading and link status, the step of a controller without a sink and the
\* step of a controller whose sink never fails log the same records and end
\* in the same state, with the same rate-limit state of the gate (after a
\* STOP decision in particular).
C39_DryRunEquivalent ==
    ~sink_fails =>
        \A obs \in Observations :
            LET a == step(Attached(World), obs)
                d == step(DryRun(World), obs)
            IN  /\ a.commands = d.commands
                /\ a.state = d.state
                /\ a.last_send = d.last_send
                /\ Observable(a) = Observable(d)

\* ------------------------------------------------------------------------
\* C40  The bridge, tailing the commands log of the controller, never
\* dispatches a record logged with allowed = false, and dispatches nothing
\* while the link status of the vehicle is not "OK".
C40_BridgeHonoursDecision ==
    \A i \in 1..Len(bridge_sent) :
        /\ bridge_sent[i].allowed
        /\ bridge_sent[i].link = "OK"

====
